---- MODULE Spec2Model ----
(***************************************************************************)
(* The step-gated authentication forms of admin_console_next: the login    *)
(* page (src/unnamed/part_000), Join (src/components/auth/Join.tsx) and    *)
(* JoinWithInvitation (src/components/auth/JoinWithInvitation.tsx), with   *)
(* the lazily built provider client of src/lib/hawcx.ts.                   *)
(*                                                                         *)
(* One behaviour is one mounted component instance (one flow instance).    *)
(* Strings that validation inspects are sequences of characters; opaque    *)
(* strings (tokens, messages, URLs parts) are TLA+ strings.  A URL is the  *)
(* tuple of the parts the template literal concatenates.                   *)
(* router.push hands the target to the host's router; what the router does *)
(* with it afterwards is outside the component and is not modelled.        *)
(* The reCAPTCHA widget is its onChange event alone.                       *)
(***************************************************************************)
EXTENDS Integers, Sequences, FiniteSets, Bags, TLC

\* ---------------------------------------------------------------- bounds
\* onSubmit invocations of one flow instance that may be unfinished at once
MaxInFlight == 2
\* router.push calls followed per flow instance
MaxPushes == 2

\* ------------------------------------------------------- input universes
Variants == {"login", "join", "invite"}
NameInputs == {<<>>, <<"a">>}
TeamInputs == {<<>>, <<"a", "a">>, <<"a", "a", "a">>}
EmailInputs == {<<>>, <<"a">>, <<"a", "@", "a">>}
OtpInputs == {<<>>, <<"1">>}
InviteTokens == {"", "INV1"}
DefaultUrls == {"/dashboard", "/teams"}
AccessTokens == {"T1", "T2"}
ProviderMessages == {"email-taken"}
InvitedEmail == <<"b", "@", "b">>
\* what the reCAPTCHA widget hands to its onChange ("": none, or expired)
CaptchaTokens == {"", "R1"}

\* AuthResult of the provider: access_token "" stands for an absent one
\* (the code only tests it for truthiness).
ProviderResults ==
    {[success |-> FALSE, message |-> m, access_token |-> ""] : m \in ProviderMessages}
    \cup {[success |-> TRUE, message |-> "ok", access_token |-> ""]}
    \cup {[success |-> TRUE, message |-> "ok", access_token |-> t] : t \in AccessTokens}

\* maxLengthPolicies of @/lib/common, scaled to the input universes
maxLengthPolicies == [name |-> 4, email |-> 6, team |-> 4]

VARIABLES
    variant,        \* which component this instance is
    token,          \* router.query.token (login) / inviteToken prop (invite)
    env,            \* env.redirectIfAuthenticated
    status,         \* useSession().status (login)
    invitation,     \* useInvitation(): [state, email, sentViaEmail] (invite)
    step,           \* useState step: 'email' | 'form' | 'otp'
    values,         \* formik.values
    errors,         \* formik.errors, as the set of fields in error
    isSubmitting,   \* formik.isSubmitting
    calls,          \* bag of the unfinished onSubmit invocations: position and captured closure
    authInstance,   \* module-global authInstance of lib/hawcx (0: undefined; n: the n-th client built)
    message,        \* useState message of the login page
    toast,          \* the latest react-hot-toast call (<<>>: none yet)
    store,          \* sessionStorage['access_token'] ("" : absent)
    storeWrites,    \* number of sessionStorage.setItem calls
    pushes,         \* router.push calls, in order
    rendered,       \* FALSE while a state change awaits its re-render
    recaptchaToken, \* useState recaptchaToken
    visited,        \* history: the values step has had
    issued          \* history: the provider operations called so far

vars == <<variant, token, env, status, invitation, step, values, errors,
          isSubmitting, calls, authInstance, message, toast, store,
          storeWrites, pushes, rendered, recaptchaToken, visited, issued>>

\* ------------------------------------------------------------- Yup rules
Required(v) == Len(v) > 0
MaxLen(v, n) == Len(v) <= n
MinLen(v, n) == Len(v) >= n

\* Yup's email pattern over the characters used here: local@domain with
\* exactly one "@"; the empty string passes (excludeEmptyString).
EmailFormat(v) ==
    \/ v = <<>>
    \/ /\ Cardinality({i \in 1..Len(v) : v[i] = "@"}) = 1
       /\ v[1] # "@"
       /\ v[Len(v)] # "@"

\* Mutant of OtpRuleOk: the step never reaches the rule, which then always
\* takes its 'otherwise' branch.
OtpRuleOk_StepIgnored(st, otp) == TRUE

\* otp: Yup.string().when('$step', { is: 'otp', then required, otherwise notRequired })
OtpRuleOk(st, otp) == IF st = "otp" THEN Required(otp) ELSE TRUE

LoginErrors(st, vals) ==
    {f \in {"email"} :
        ~(Required(vals.email) /\ EmailFormat(vals.email)
          /\ MaxLen(vals.email, maxLengthPolicies.email))}
    \cup {f \in {"otp"} : ~OtpRuleOk(st, vals.otp)}

JoinErrors(st, vals) ==
    {f \in {"name"} :
        ~(Required(vals.name) /\ MaxLen(vals.name, maxLengthPolicies.name))}
    \cup {f \in {"email"} :
        ~(Required(vals.email) /\ EmailFormat(vals.email)
          /\ MaxLen(vals.email, maxLengthPolicies.email))}
    \cup {f \in {"otp"} : ~OtpRuleOk(st, vals.otp)}
    \cup {f \in {"team"} :
        ~(Required(vals.team) /\ MinLen(vals.team, 3)
          /\ MaxLen(vals.team, maxLengthPolicies.team))}

InviteErrors(st, vals) ==
    {f \in {"name"} :
        ~(Required(vals.name) /\ MaxLen(vals.name, maxLengthPolicies.name))}
    \cup {f \in {"otp"} : ~OtpRuleOk(st, vals.otp)}
    \cup {f \in {"email"} :
        ~(/\ MaxLen(vals.email, maxLengthPolicies.email)
          /\ (vals.sentViaEmail = FALSE =>
                 /\ Required(vals.email)
                 /\ EmailFormat(vals.email)
                 /\ MaxLen(vals.email, maxLengthPolicies.email)))}

\* validationSchema under validationContext { step }
Validate(v, st, vals) ==
    CASE v = "login" -> LoginErrors(st, vals)
      [] v = "join" -> JoinErrors(st, vals)
      [] OTHER -> InviteErrors(st, vals)

\* ----------------------------------------------------------- the component
\* sentViaEmail: invitation?.sentViaEmail || true
InitialSentViaEmail(inv) ==
    LET x == inv.state = "ready" /\ inv.sentViaEmail
    IN  IF x THEN x ELSE TRUE

InitialStep(v) == IF v = "login" THEN "email" ELSE "form"

initialValues(v, inv) ==
    [name |-> <<>>, team |-> <<>>, email |-> <<>>, otp |-> <<>>,
     sentViaEmail |-> IF v = "invite" THEN InitialSentViaEmail(inv) ELSE TRUE]

\* Mutant of redirectUrl: the invitation token is not looked at.
redirectUrl_DefaultOnly(tok, dflt) == <<dflt>>

\* const redirectUrl = token ? `/invitations/${token}` : env.redirectIfAuthenticated
redirectUrl(tok, dflt) ==
    IF tok # "" THEN <<"/invitations/", tok>> ELSE <<dflt>>

\* Mutant of joinedUrl: the invitation form navigates like the plain one,
\* without the invite token.
joinedUrl_TokenDropped(v, tok) == <<"/auth/login">>

\* router.push target of the join forms after a successful verifyOTP
joinedUrl(v, tok) ==
    IF v = "invite" THEN <<"/auth/login?token=", tok>> ELSE <<"/auth/login">>

\* const { token } = router.query of the login page opened at url: the value
\* after '?token=' ("" : no such parameter).  Tokens are opaque here, so
\* none holds a character the query syntax reserves.
queryToken(url) ==
    IF Len(url) = 2 /\ url[1] = "/auth/login?token=" THEN url[2] ELSE ""

ProviderOps == {"signIn", "signUp", "verifyOTP"}

\* The provider calls that have not returned yet
Pending == {c \in BagToSet(calls) : c.pc \in ProviderOps}
NumPending == BagCardinality([c \in Pending |-> calls[c]])

\* The form is on screen: the login page returns <Loading/> while the
\* session loads; JoinWithInvitation returns <Loading/> or <Error/> until the
\* invitation is there.
FormOnScreen ==
    /\ variant = "login" => status # "loading"
    /\ variant = "invite" => invitation.state = "ready"

\* Events reach the form once the pending re-render has run.
FormVisible == rendered /\ FormOnScreen

\* Mutant of Editable: the invitation form binds its email input to formik
\* whatever the invitation says.
Editable_EmailAlwaysBound(f) ==
    CASE variant = "login" ->
            \/ f = "email" /\ step # "otp"
            \/ f = "otp" /\ step = "otp"
      [] variant = "join" ->
            \/ f \in {"name", "team", "email"}
            \/ f = "otp" /\ step = "otp"
      [] OTHER ->
            \/ f \in {"name", "email"}
            \/ f = "otp" /\ step = "otp"

\* Fields with an enabled, formik-bound input in the current render
Editable(f) ==
    CASE variant = "login" ->
            \/ f = "email" /\ step # "otp"
            \/ f = "otp" /\ step = "otp"
      [] variant = "join" ->
            \/ f \in {"name", "team", "email"}
            \/ f = "otp" /\ step = "otp"
      [] OTHER ->
            \/ f = "name"
            \/ f = "email" /\ ~invitation.sentViaEmail
            \/ f = "otp" /\ step = "otp"

InputsOf(f) ==
    CASE f = "name" -> NameInputs
      [] f = "team" -> TeamInputs
      [] f = "email" -> EmailInputs
      [] OTHER -> OtpInputs

\* The provider operation onSubmit calls for the step its closure captured
OpForStep(v, st) ==
    IF st = "otp" THEN "verifyOTP"
    ELSE IF v = "login" THEN "signIn" ELSE "signUp"

\* setMessage({ text: null, status: null }) of the login page's onSubmit
ClearedMessage == [text |-> "", status |-> ""]

Init ==
    /\ variant \in Variants
    /\ token \in CASE variant = "login" -> InviteTokens
                  [] variant = "invite" -> InviteTokens \ {""}
                  [] OTHER -> {""}
    /\ env \in IF variant = "login" THEN DefaultUrls ELSE {"/dashboard"}
    /\ status = "loading"
    /\ invitation \in
         IF variant = "invite"
         THEN {[state |-> "loading", email |-> InvitedEmail, sentViaEmail |-> b] :
                 b \in BOOLEAN}
         ELSE {[state |-> "none", email |-> <<>>, sentViaEmail |-> FALSE]}
    /\ step = InitialStep(variant)
    /\ values = initialValues(variant, invitation)
    /\ errors = {}
    /\ isSubmitting = FALSE
    /\ calls = EmptyBag
    /\ authInstance = 0
    /\ message = ClearedMessage
    /\ toast = <<>>
    /\ store = ""
    /\ storeWrites = 0
    /\ pushes = <<>>
    /\ rendered = TRUE
    /\ recaptchaToken = ""
    /\ visited = {step}
    /\ issued = {}


\* --------------------------------------------------- the result handlers
\* What a resumed onSubmit does with the provider's result, as the effects
\* it performs: setStep (""; none), setMessage (<<>>: none), the
\* sessionStorage.setItem value ("": none), router.push targets and toasts.
NoEffect ==
    [setStep |-> "", setMessage |-> <<>>, setItem |-> "", push |-> <<>>, toast |-> <<>>]

\* Mutant of LoginSignInEffect: a token returned by signIn is dropped and the
\* flow always goes on to the otp step.
LoginSignInEffect_TokenDropped(res, tok, dflt) ==
    IF res.success
    THEN [NoEffect EXCEPT !.setStep = "otp"]
    ELSE [NoEffect EXCEPT !.setMessage = <<[text |-> res.message, status |-> "error"]>>]

\* login, step 'email': const res = await hawcx.signIn(values.email)
LoginSignInEffect(res, tok, dflt) ==
    IF res.success /\ res.access_token # ""
    THEN [NoEffect EXCEPT !.setItem = res.access_token,
                          !.push = <<[url |-> redirectUrl(tok, dflt), by |-> "signIn"]>>]
    ELSE IF res.success
    THEN [NoEffect EXCEPT !.setStep = "otp"]
    ELSE [NoEffect EXCEPT !.setMessage = <<[text |-> res.message, status |-> "error"]>>]

\* Mutant of LoginVerifyEffect: a refused code sends the flow back to the
\* email step.
LoginVerifyEffect_RestartsOnFailure(res, tok, dflt) ==
    IF res.success
    THEN [NoEffect EXCEPT !.setItem = res.access_token,
                          !.push = <<[url |-> redirectUrl(tok, dflt), by |-> "verifyOTP"]>>]
    ELSE [NoEffect EXCEPT !.setStep = "email",
                          !.setMessage = <<[text |-> res.message, status |-> "error"]>>]

\* Mutant of LoginVerifyEffect: the verified token is not persisted.
LoginVerifyEffect_NotPersisted(res, tok, dflt) ==
    IF res.success
    THEN [NoEffect EXCEPT !.push = <<[url |-> redirectUrl(tok, dflt), by |-> "verifyOTP"]>>]
    ELSE [NoEffect EXCEPT !.setMessage = <<[text |-> res.message, status |-> "error"]>>]

\* login, step 'otp': const verify = await hawcx.verifyOTP(values.otp)
LoginVerifyEffect(res, tok, dflt) ==
    IF res.success
    THEN [NoEffect EXCEPT !.setItem = res.access_token,
                          !.push = <<[url |-> redirectUrl(tok, dflt), by |-> "verifyOTP"]>>]
    ELSE [NoEffect EXCEPT !.setMessage = <<[text |-> res.message, status |-> "error"]>>]

\* Mutant of JoinSignUpEffect: a failure shows a fixed text instead of the
\* provider's message.
JoinSignUpEffect_FixedText(res) ==
    IF res.success
    THEN [NoEffect EXCEPT !.setStep = "otp"]
    ELSE [NoEffect EXCEPT !.toast = <<[kind |-> "error", text |-> "something-went-wrong"]>>]

\* Join / JoinWithInvitation, step 'form': const res = await hawcx.signUp(values.email)
JoinSignUpEffect(res) ==
    IF res.success
    THEN [NoEffect EXCEPT !.setStep = "otp"]
    ELSE [NoEffect EXCEPT !.toast = <<[kind |-> "error", text |-> res.message]>>]

\* Mutant of JoinVerifyEffect: the join forms persist a returned token as
\* the login page does.
JoinVerifyEffect_Persists(v, res, tok) ==
    IF res.success
    THEN [NoEffect EXCEPT !.toast = <<[kind |-> "success", text |-> "successfully-joined"]>>,
                          !.setItem = res.access_token,
                          !.push = <<[url |-> joinedUrl(v, tok), by |-> "verifyOTP"]>>]
    ELSE [NoEffect EXCEPT !.toast = <<[kind |-> "error", text |-> res.message]>>]

\* Join / JoinWithInvitation, step 'otp': const verify = await hawcx.verifyOTP(values.otp)
JoinVerifyEffect(v, res, tok) ==
    IF res.success
    THEN [NoEffect EXCEPT !.toast = <<[kind |-> "success", text |-> "successfully-joined"]>>,
                          !.push = <<[url |-> joinedUrl(v, tok), by |-> "verifyOTP"]>>]
    ELSE [NoEffect EXCEPT !.toast = <<[kind |-> "error", text |-> res.message]>>]

ResultEffect(v, op, res, tok, dflt) ==
    CASE v = "login" /\ op = "signIn" -> LoginSignInEffect(res, tok, dflt)
      [] v = "login" /\ op = "verifyOTP" -> LoginVerifyEffect(res, tok, dflt)
      [] v # "login" /\ op = "signUp" -> JoinSignUpEffect(res)
      [] OTHER -> JoinVerifyEffect(v, res, tok)

\* ---------------------------------------------------------------- actions
\* A state change schedules a re-render of the component under session
\* status st.  A render that pushes nothing changes no state, so it is taken
\* with the change that caused it; a render that pushes is the step Render.
Rerender(st) == rendered' = ~(variant = "login" /\ st = "authenticated")

\* useSession() settles (login page); the status change re-renders.
SessionResolved ==
    /\ variant = "login"
    /\ rendered
    /\ status = "loading"
    /\ status' \in {"authenticated", "unauthenticated"}
    /\ Rerender(status')
    /\ UNCHANGED <<recaptchaToken, variant, token, env, invitation, step, values, errors,
                   isSubmitting, calls, authInstance, message, toast, store,
                   storeWrites, pushes, visited, issued>>

\* useInvitation() settles (JoinWithInvitation); enableReinitialize resets the
\* form when initialValues changed.
InvitationResolved ==
    /\ variant = "invite"
    /\ rendered
    /\ invitation.state = "loading"
    /\ \E s \in {"ready", "error"} :
         /\ invitation' = [invitation EXCEPT !.state = s]
         /\ values' = IF initialValues(variant, invitation') # initialValues(variant, invitation)
                      THEN initialValues(variant, invitation')
                      ELSE values
    /\ Rerender(status)
    /\ UNCHANGED <<recaptchaToken, variant, token, env, status, step, errors, isSubmitting,
                   calls, authInstance, message, toast, store, storeWrites,
                   pushes, visited, issued>>

\* The component function runs again.  Login: past the 'loading' return,
\* if (status === 'authenticated') router.push(redirectUrl).
RenderPushes ==
    IF variant = "login" /\ status = "authenticated"
    THEN <<[url |-> redirectUrl(token, env), by |-> "render"]>>
    ELSE <<>>

Render ==
    /\ ~rendered
    /\ Len(pushes) + Len(RenderPushes) <= MaxPushes
    /\ pushes' = pushes \o RenderPushes
    /\ rendered' = TRUE
    /\ UNCHANGED <<recaptchaToken, variant, token, env, status, invitation, step, values,
                   errors, isSubmitting, calls, authInstance, message, toast,
                   store, storeWrites, visited, issued>>

\* GoogleReCAPTCHA onChange={setRecaptchaToken}: the widget of the form hands
\* over a token, or none when it expires.
setRecaptchaToken(x) ==
    /\ FormVisible
    /\ recaptchaToken # x
    /\ recaptchaToken' = x
    /\ Rerender(status)
    /\ UNCHANGED <<variant, token, env, status, invitation, step, values,
                   errors, isSubmitting, calls, authInstance, message, toast,
                   store, storeWrites, pushes, visited, issued>>

\* formik.handleChange on an input.  validateOnChange is false in the join
\* forms and left at Formik's default (true) on the login page.
ValidateOnChange(v) == v = "login"

handleChange(f, x) ==
    /\ FormVisible
    /\ Editable(f)
    /\ values[f] # x
    /\ values' = [values EXCEPT ![f] = x]
    /\ errors' = IF ValidateOnChange(variant)
                 THEN Validate(variant, step, values')
                 ELSE errors
    /\ Rerender(status)
    /\ UNCHANGED <<recaptchaToken, variant, token, env, status, invitation, step,
                   isSubmitting, calls, authInstance, message, toast, store,
                   storeWrites, pushes, visited, issued>>

\* Mutant of SubmitRuns: onSubmit runs whatever validation found.
SubmitRuns_Always(errs) == TRUE

\* Mutant of SubmitRuns: onSubmit also waits for a solved CAPTCHA.
SubmitRuns_NeedsCaptcha(errs) == errs = {} /\ recaptchaToken # ""

\* Formik runs onSubmit exactly when validation found no error.
SubmitRuns(errs) == errs = {}

\* formik.handleSubmit: validate under { step }; with no error, onSubmit
\* starts with the step and values of the current render and awaits
\* getHawcxAuth(), which resolves at once when authInstance is set.
handleSubmit ==
    /\ FormVisible
    /\ LET errs == Validate(variant, step, values)
       IN  /\ errors' = errs
           /\ IF SubmitRuns(errs)
              THEN /\ BagCardinality(calls) < MaxInFlight
                   /\ isSubmitting' = TRUE
                   /\ calls' = calls (+) SetToBag({
                        [pc |-> IF authInstance = 0 THEN "init"
                                ELSE OpForStep(variant, step),
                         step |-> step, email |-> values.email, otp |-> values.otp]})
                   /\ message' = IF authInstance # 0 /\ variant = "login"
                                 THEN ClearedMessage ELSE message
                   /\ issued' = IF authInstance # 0
                                THEN issued \cup {OpForStep(variant, step)}
                                ELSE issued
              ELSE /\ isSubmitting' = FALSE
                   /\ UNCHANGED <<calls, message, issued>>
    /\ Rerender(status)
    /\ UNCHANGED <<recaptchaToken, variant, token, env, status, invitation, step, values,
                   authInstance, toast, store, storeWrites, pushes, visited>>

\* HawcxInitializer.init resolves for an invocation c that started it:
\* authInstance is assigned, onSubmit goes on to its provider call.
HawcxInit(c) ==
    /\ rendered
    /\ BagIn(c, calls)
    /\ c.pc = "init"
    /\ authInstance' = authInstance + 1
    /\ message' = IF variant = "login" THEN ClearedMessage ELSE message
    /\ calls' = (calls (-) SetToBag({c}))
                   (+) SetToBag({[c EXCEPT !.pc = OpForStep(variant, c.step)]})
    /\ issued' = issued \cup {OpForStep(variant, c.step)}
    /\ Rerender(status)
    /\ UNCHANGED <<recaptchaToken, variant, token, env, status, invitation, step, values,
                   errors, isSubmitting, toast, store, storeWrites, pushes, visited>>

\* The provider call of an invocation c returns res; onSubmit handles it and
\* its promise resolves (Formik: isSubmitting false); the invocation is over.
Resume(c, res) ==
    /\ rendered
    /\ BagIn(c, calls)
    /\ c.pc \in ProviderOps
    /\ LET e == ResultEffect(variant, c.pc, res, token, env)
       IN  /\ Len(pushes) + Len(e.push) <= MaxPushes
           /\ step' = IF e.setStep # "" THEN e.setStep ELSE step
           /\ visited' = visited \cup {step'}
           /\ message' = IF e.setMessage # <<>> THEN e.setMessage[1] ELSE message
           /\ store' = IF e.setItem # "" THEN e.setItem ELSE store
           /\ storeWrites' = IF e.setItem # "" THEN storeWrites + 1 ELSE storeWrites
           /\ pushes' = pushes \o e.push
           /\ toast' = IF e.toast # <<>> THEN e.toast ELSE toast
    /\ calls' = calls (-) SetToBag({c})
    /\ isSubmitting' = FALSE
    /\ Rerender(status)
    /\ UNCHANGED <<recaptchaToken, variant, token, env, status, invitation, values, errors,
                   authInstance, issued>>

Next ==
    \/ SessionResolved
    \/ InvitationResolved
    \/ Render
    \/ \E f \in {"name", "team", "email", "otp"} : \E x \in InputsOf(f) : handleChange(f, x)
    \/ \E x \in CaptchaTokens : setRecaptchaToken(x)
    \/ handleSubmit
    \/ \E c \in BagToSet(calls) : HawcxInit(c)
    \/ \E c \in BagToSet(calls) : \E res \in ProviderResults : Resume(c, res)

Spec == Init /\ [][Next]_vars


\* ------------------------------------------------------------------ claims

\* C1: in every flow variant at most one provider call (signUp, signIn,
\* verifyOTP) of the flow instance is outstanding at a time; a submission
\* made while one is pending is a no-op.
C1_SingleFlight == NumPending <= 1

\* C2: in the login flow sessionStorage['access_token'] is written at most
\* once per flow instance, whatever the submissions and provider responses.
C2_SingleWrite == variant = "login" => storeWrites <= 1

\* C3: a flow instance triggers the navigation of Authenticated at most once,
\* only from the handler of a successful provider call (never from a
\* re-render), and accepts no submission afterwards.
C3_AuthenticatedOnce ==
    /\ Len(pushes) <= 1
    /\ \A k \in 1..Len(pushes) : pushes[k].by \in {"signIn", "verifyOTP"}
    /\ pushes # <<>> => ~FormVisible


\* C4: in every flow variant the otp field is required by validation exactly
\* in VerifyStep: with the other fields as they are, an empty otp is an otp
\* error if and only if step is 'otp', and a non-empty otp never is.
C4_OtpRequiredIffVerifyStep ==
    \A o \in OtpInputs :
        ("otp" \in Validate(variant, step, [values EXCEPT !.otp = o]))
            <=> (step = "otp" /\ o = <<>>)

\* C4 witness: a submission with an empty otp was refused in VerifyStep of
\* the join form, the other fields being valid.
C4_Witness ==
    /\ variant = "join"
    /\ step = "otp"
    /\ values.otp = <<>>
    /\ errors = {"otp"}

\* The failure message as the user gets it: the login page's message state,
\* the join forms' error toast.
Surfaced(v, msg, tst, text) ==
    IF v = "login"
    THEN msg = [text |-> text, status |-> "error"]
    ELSE tst = <<[kind |-> "error", text |-> text]>>

C6_ImmediateToken ==
    [][\A c \in Pending : \A res \in ProviderResults :
          (/\ variant = "login"
           /\ c.pc = "signIn"
           /\ res.success
           /\ res.access_token # ""
           /\ Resume(c, res)) =>
              /\ c.step = "email"
              /\ store' = res.access_token
              /\ Len(pushes') = Len(pushes) + 1
              /\ pushes'[Len(pushes')].by = "signIn"
              /\ token = "" => pushes'[Len(pushes')].url = <<env>>
              /\ step = "email" =>
                    /\ step' = "email"
                    /\ "otp" \notin visited'
                    /\ "verifyOTP" \notin issued']_vars

\* C6 witness (Scenario A): one signIn returned T1 at once.
C6_Witness ==
    /\ variant = "login"
    /\ token = ""
    /\ store = "T1"
    /\ storeWrites = 1
    /\ pushes = <<[url |-> <<env>>, by |-> "signIn"]>>
    /\ visited = {"email"}
    /\ issued = {"signIn"}

C8_StoreWrittenOnlyOnTokenSuccess ==
    [][(store' # store \/ storeWrites' # storeWrites) =>
          /\ variant = "login"
          /\ \E c \in BagToSet(calls) : \E res \in ProviderResults :
                /\ Resume(c, res)
                /\ res.success
                /\ res.access_token # ""
                /\ store' = res.access_token
                /\ storeWrites' = storeWrites + 1
                /\ Len(pushes') = Len(pushes) + 1]_vars

\* C8 witness: the invitation form completed (verifyOTP succeeded, it
\* navigated to the login page) and the store is still empty.
C8_Witness ==
    /\ variant = "invite"
    /\ step = "otp"
    /\ toast = <<[kind |-> "success", text |-> "successfully-joined"]>>
    /\ Len(pushes) = 1
    /\ store = ""
    /\ storeWrites = 0

\* C9: every navigation of a login flow instance goes to the same target,
\* '/invitations/' + token when an invitation token is present, whatever the
\* configured default, and the configured default otherwise.
C9_RedirectTarget ==
    variant = "login" =>
        \A k \in 1..Len(pushes) :
            pushes[k].url = IF token = "" THEN <<env>> ELSE <<"/invitations/", token>>

\* C9 witness (Scenario D): token INV1 present, default '/teams', and the
\* flow navigated after a successful verifyOTP.
C9_Witness ==
    /\ variant = "login"
    /\ token = "INV1"
    /\ env = "/teams"
    /\ Len(pushes) = 1
    /\ pushes[1] = [url |-> <<"/invitations/", "INV1">>, by |-> "verifyOTP"]

C11_InvitedEmailFixed ==
    (variant = "invite" /\ invitation.sentViaEmail) =>
        /\ values.email = initialValues(variant, invitation).email
        /\ "email" \notin Validate(variant, step, values)
        /\ "email" \notin errors

\* C11 witness: with sentViaEmail true a submission was accepted in
\* RequestStep and one was validated in VerifyStep, the email still empty.
C11_Witness ==
    /\ variant = "invite"
    /\ invitation.state = "ready"
    /\ invitation.sentViaEmail
    /\ step = "otp"
    /\ "signUp" \in issued
    /\ errors = {"otp"}
    /\ values.email = <<>>

\* C12: in the invitation form, when the invitation's sentViaEmail is false,
\* every accepted submission (in either step) carries a non-empty,
\* well-formed email: one with an empty or malformed email starts no
\* onSubmit, so no signUp.
C12_EmailRequiredUnlessSentViaEmail ==
    (variant = "invite" /\ ~invitation.sentViaEmail) =>
        \A c \in BagToSet(calls) : Required(c.email) /\ EmailFormat(c.email)

\* C13: the provider operation a submission calls is the one of the phase
\* the flow is in when the call is made: signUp / signIn only while the step
\* is RequestStep, verifyOTP only while it is 'otp' and after a request
\* call's result moved the step there, also when submissions overlap.
C13_OperationByPhase ==
    [][\A c \in BagToSet(calls') :
          (c.pc \in ProviderOps /\ CopiesIn(c, calls') > CopiesIn(c, calls)) =>
              /\ c.pc = "verifyOTP" <=> step = "otp"
              /\ c.pc = "verifyOTP" => "otp" \in visited]_vars

\* C14: the provider client is constructed at most once, however the
\* getHawcxAuth calls overlap.
C14_SingleClient == authInstance <= 1

\* C15: in the invitation form with the invitation's sentViaEmail true, the
\* email argument of every signUp call is the invitation's email.
C15_SignUpWithInvitedEmail ==
    (variant = "invite" /\ invitation.sentViaEmail) =>
        \A c \in BagToSet(calls) : c.pc = "signUp" => c.email = invitation.email

\* C16: no error is terminal: whenever the form is on screen and the flow has
\* not navigated, a submission can be accepted again, that is, some input
\* the form still takes passes the validation of the current step.
C16_NoErrorTerminal ==
    (FormOnScreen /\ pushes = <<>>) =>
        \E n \in NameInputs, t \in TeamInputs, e \in EmailInputs, o \in OtpInputs :
            Validate(variant, step,
                     [values EXCEPT !.name = IF Editable("name") THEN n ELSE @,
                                    !.team = IF Editable("team") THEN t ELSE @,
                                    !.email = IF Editable("email") THEN e ELSE @,
                                    !.otp = IF Editable("otp") THEN o ELSE @]) = {}

\* C17: whenever verifyOTP succeeds in a join form, the form navigates to
\* the login page; from the invitation form the URL carries the invite
\* token, the login page opened there reads that token and its redirect is
\* '/invitations/' + token whatever the default; from the plain form the
\* login page reads no token and its redirect is the configured default.
C17_JoinHandsTokenToLogin ==
    [][\A c \in Pending : \A res \in ProviderResults :
          (/\ variant # "login"
           /\ c.pc = "verifyOTP"
           /\ res.success
           /\ Resume(c, res)) =>
              /\ Len(pushes') = Len(pushes) + 1
              /\ LET url == pushes'[Len(pushes')].url
                 IN  /\ url[1] \in {"/auth/login", "/auth/login?token="}
                     /\ queryToken(url) = token
                     /\ \A d \in DefaultUrls :
                          redirectUrl(queryToken(url), d) =
                             IF variant = "invite"
                             THEN <<"/invitations/", token>>
                             ELSE <<d>>]_vars

\* C17 witness: the invitation form for INV1 completed and navigated to the
\* login page with that token.
C17_Witness ==
    /\ variant = "invite"
    /\ token = "INV1"
    /\ toast = <<[kind |-> "success", text |-> "successfully-joined"]>>
    /\ pushes = <<[url |-> <<"/auth/login?token=", "INV1">>, by |-> "verifyOTP"]>>

\* C19: validation runs only on submission, in every variant: an input event
\* (a change of formik.values) never changes the set of validation errors.
C19_ValidationOnlyOnSubmit ==
    [][values' # values => errors' = errors]_vars

\* C20 as stated: the step never leaves 'otp', and every change of the step
\* is made by the handler of a provider result, and any result whose handling
\* changes it is a successful request call's (signIn / signUp) that carries
\* no token.
C20_PhaseMonotone ==
    [][/\ step = "otp" => step' = "otp"
       /\ step' # step =>
             /\ \E c \in Pending : \E res \in ProviderResults : Resume(c, res)
             /\ \A c \in Pending : \A res \in ProviderResults :
                   Resume(c, res) =>
                      /\ c.pc \in {"signIn", "signUp"}
                      /\ res.success
                      /\ res.access_token = ""]_vars

\* C20 amended: the step never leaves 'otp', and every change of the step
\* goes from RequestStep to 'otp' and is made by the handler of a successful
\* request call: a signIn result without a token on the login page, a signUp
\* result with or without one in the join forms.
C20_PhaseMonotoneAnySignUp ==
    [][/\ step = "otp" => step' = "otp"
       /\ step' # step =>
             /\ step = InitialStep(variant)
             /\ step' = "otp"
             /\ \E c \in Pending : \E res \in ProviderResults : Resume(c, res)
             /\ \A c \in Pending : \A res \in ProviderResults :
                   Resume(c, res) =>
                      /\ c.pc = IF variant = "login" THEN "signIn" ELSE "signUp"
                      /\ res.success
                      /\ variant = "login" => res.access_token = ""]_vars

\* C20 witness: the join form reached 'otp' and stayed there through a
\* refused code and further input.
C20_Witness ==
    /\ variant = "join"
    /\ step = "otp"
    /\ visited = {"form", "otp"}
    /\ issued = {"signUp", "verifyOTP"}
    /\ toast = <<[kind |-> "error", text |-> "email-taken"]>>
    /\ values.otp = <<>>
    /\ Pending = {}

====
